---------------------------- MODULE Spec2Model ----------------------------
(***************************************************************************)
(* A model of the environment-stepping orchestrator (LocalEnvManager over  *)
(* Simple1DEnvironment, test_simple.py) and of the sampler framework       *)
(* (sampler_class.py).                                                     *)
(*                                                                         *)
(* Positions are counted in units of STEP_SIZE (0.1): the interval [-1, 1] *)
(* of the source is -POSITION_LIMIT .. POSITION_LIMIT here.                *)
(***************************************************************************)
EXTENDS Integers, Sequences, FiniteSets, TLC

\* ------------------------------------------------------------------ bounds

\* Number of environments handed to LocalEnvManager(envs).
NumEnvs == 2

\* global_done is step_count > 1000 in the source; the model scales the
\* threshold down so that the auto-reset branch is reached.
GlobalDoneSteps == 3

\* Largest number of parameters in a sampler configuration mapping.
MaxParams == 2

\* Largest step_count an environment driven directly is taken to: enough
\* steps to walk from 0 to either end of the position range.
MaxEnvSteps == 12

\* ------------------------------------------------------- program constants

\* STEP_SIZE = 0.1, the unit of position in this model.
STEP_SIZE == 1

\* The position is clamped to [-1, 1], that is 10 units of STEP_SIZE.
POSITION_LIMIT == 10

\* The action values the policy collaborator may answer with (in units of
\* STEP_SIZE): one beyond the clamp, one inside it, in both directions.
PolicyActions == {-2, 1}

EnvIds == 1 .. NumEnvs

VARIABLES
    envs,     \* envs[i]: the state of the i-th Simple1DEnvironment
    ctxs,     \* ctxs[i]: the i-th EnvContext (previous_step, previous_all_action_info)
    ret,      \* outcome of the latest LocalEnvManager call
    calls,    \* calls[i]: the calls the latest LocalEnvManager call made on environment i
    failed,   \* whether a LocalEnvManager call has raised
    NAME_TO_CLASS,     \* SamplerFactory's registry: tag -> sampler class
    reset_param_dict,  \* the caller's sampler configuration mapping
    manager,  \* the SamplerManager the latest successful construction produced
    sret      \* outcome of the latest sampler-framework call

envVars == <<envs, ctxs, ret, calls, failed>>

samplerVars == <<NAME_TO_CLASS, reset_param_dict, manager, sret>>

vars == <<envs, ctxs, ret, calls, failed, NAME_TO_CLASS, reset_param_dict, manager, sret>>

\* ------------------------------------------------------------- data model

\* Python's None and a dict over the single key BRAIN_NAME: a dict is the
\* sequence of its values, <<>> for {} and <<v>> for {BRAIN_NAME: v}.
None == [isNone |-> TRUE, items |-> <<>>]

Dict(items) == [isNone |-> FALSE, items |-> items]

EmptyDict == Dict(<<>>)

\* Python truthiness of an Optional[Dict]: None and {} are falsy.
Truthy(d) == ~d.isNone /\ Len(d.items) > 0

BrainInfo(obs, reward, done) ==
    [vector_observations |-> obs, rewards |-> reward, local_done |-> done]

ActionInfo(a) == [action |-> a]

StepInfo(prev, cur, act) ==
    [previous_all_brain_info |-> prev,
     current_all_brain_info |-> cur,
     brain_name_to_action_info |-> act]

Max(a, b) == IF a >= b THEN a ELSE b

Min(a, b) == IF a <= b THEN a ELSE b

clamp(x, min_val, max_val) == Max(min_val, Min(x, max_val))

\* ---------------------------------------------------- Simple1DEnvironment

Simple1DEnvironment == [position |-> 0, step_count |-> 0]

\* A step() that adds the action to the position as it comes.
EnvStepStateUnclamped(e, vector_action) ==
    IF Truthy(vector_action)
    THEN [position |-> clamp(e.position + vector_action.items[1],
                             -POSITION_LIMIT, POSITION_LIMIT),
          step_count |-> e.step_count + 1]
    ELSE e

\* A step() that counts every call, with or without an action.
EnvStepStateCountsEveryCall(e, vector_action) ==
    LET delta == IF Truthy(vector_action) THEN vector_action.items[1] ELSE 0
        moved == e.position + clamp(delta, -STEP_SIZE, STEP_SIZE)
    IN  [position |-> clamp(moved, -POSITION_LIMIT, POSITION_LIMIT),
         step_count |-> e.step_count + 1]

\* The state after step(vector_action): lines 54-58.
EnvStepState(e, vector_action) ==
    IF Truthy(vector_action)
    THEN LET delta == vector_action.items[1]
             moved == e.position + clamp(delta, -STEP_SIZE, STEP_SIZE)
         IN  [position |-> clamp(moved, -POSITION_LIMIT, POSITION_LIMIT),
              step_count |-> e.step_count + 1]
    ELSE e

\* The observation step() returns for the state it leaves: lines 59-71.
EnvStepObs(e) ==
    LET done == e.position >= POSITION_LIMIT \/ e.position <= -POSITION_LIMIT
        reward == IF done THEN e.position ELSE 0
    IN  Dict(<<BrainInfo(e.position, reward, done)>>)

\* reset(): the state it leaves and the observation it returns.
EnvResetState(e) == [position |-> 0, step_count |-> 0]

EnvResetObs(e) == Dict(<<BrainInfo(EnvResetState(e).position, 0, FALSE)>>)

global_done(e) == e.step_count > GlobalDoneSteps

\* --------------------------------------------------------- LocalEnvManager

EnvContext(env) ==
    [previous_step |-> StepInfo(None, EmptyDict, None),
     previous_all_action_info |-> EmptyDict]

\* One environment call as the environment saw it.
Call(op, withAction, raised) == [op |-> op, withAction |-> withAction, raised |-> raised]

\* Which environment call raises in a manager call, if any: the call made
\* on context `at`, the lead-in env.step() or the main step/reset/close.
NoFault == [at |-> 0, call |-> "none"]

Fault(i, call) == [at |-> i, call |-> call]

FaultAt(fault, i) == IF fault.at = i THEN fault.call ELSE "none"

\* A loop that swallows the exception and goes on to the next context.
ReachedDespiteRaise(fault, i) == TRUE

\* The loops run the contexts in order and a raising call ends them: the
\* contexts a loop gets to are those up to the raising one.
Reached(fault, i) == fault.at = 0 \/ i <= fault.at

\* The contexts whose iteration ran to its end.
Completed(fault) == IF fault.at = 0 THEN NumEnvs ELSE fault.at - 1

\* _take_step: one ActionInfo per brain of the last step's current
\* observation set; a is the policy's answer.
take_step(last_step, a) ==
    Dict([b \in 1 .. Len(last_step.current_all_brain_info.items) |-> ActionInfo(a)])

\* The dict of action values passed to env.step(): lines 135-143.
ActionsOf(all_action_info) ==
    Dict([b \in 1 .. Len(all_action_info.items) |-> all_action_info.items[b].action])

IterResult(e, c, info, log, raised) ==
    [env |-> e, ctx |-> c, info |-> info, calls |-> log, raised |-> raised]

\* An iteration that, having reset a finished environment, goes on to step
\* it with the action.
StepIterActsAfterReset(e, c, a, f) ==
    LET all_action_info == take_step(c.previous_step, a)
        c1 == [c EXCEPT !.previous_all_action_info = all_action_info]
        actions == ActionsOf(all_action_info)
        e1 == IF global_done(e) THEN EnvResetState(e) ELSE e
        stepped == EnvStepState(e1, actions)
    IN  IterResult(stepped, c1, EnvStepObs(stepped),
                   <<Call("step", FALSE, FALSE),
                     Call(IF global_done(e) THEN "reset" ELSE "step",
                          ~global_done(e) /\ Truthy(actions), FALSE)>>, FALSE)

\* One iteration of the first loop of step(), lines 128-145, on a context c
\* with environment e; f says which of its environment calls raises.
StepIter(e, c, a, f) ==
    LET all_action_info == take_step(c.previous_step, a)
        c1 == [c EXCEPT !.previous_all_action_info = all_action_info]
        e1 == EnvStepState(e, None)
        lead == Call("step", FALSE, FALSE)
        actions == ActionsOf(all_action_info)
        stepped == EnvStepState(e1, actions)
    IN  IF f = "lead"
        THEN IterResult(e, c1, None, <<Call("step", FALSE, TRUE)>>, TRUE)
        ELSE IF global_done(e1)
        THEN IF f = "main"
             THEN IterResult(e1, c1, None, <<lead, Call("reset", FALSE, TRUE)>>, TRUE)
             ELSE IterResult(EnvResetState(e1), c1, EnvResetObs(e1),
                             <<lead, Call("reset", FALSE, FALSE)>>, FALSE)
        ELSE IF f = "main"
             THEN IterResult(e1, c1, None,
                             <<lead, Call("step", Truthy(actions), TRUE)>>, TRUE)
             ELSE IterResult(stepped, c1, EnvStepObs(stepped),
                             <<lead, Call("step", Truthy(actions), FALSE)>>, FALSE)

LoopResult(E, C, infos, log, raised) ==
    [envs |-> E, ctxs |-> C, infos |-> infos, calls |-> log, raised |-> raised]

\* A loop over the contexts, given what each iteration does (it[i]): the
\* iterations up to the raising one take effect, the later ones never run.
Loop(it, fault) ==
    LoopResult([i \in EnvIds |-> IF Reached(fault, i) THEN it[i].env ELSE envs[i]],
               [i \in EnvIds |-> IF Reached(fault, i) THEN it[i].ctx ELSE ctxs[i]],
               [i \in 1 .. Completed(fault) |-> it[i].info],
               [i \in EnvIds |-> IF Reached(fault, i) THEN it[i].calls ELSE <<>>],
               fault.at # 0)

\* The first loop of step(): lines 127-145.
StepLoop(acts, fault) ==
    Loop([i \in EnvIds |-> StepIter(envs[i], ctxs[i], acts[i], FaultAt(fault, i))], fault)

\* A second loop that reads the results back to front.
StepInfosReversed(C, step_brain_infos) ==
    [i \in 1 .. Len(step_brain_infos) |->
        StepInfo(C[i].previous_step.current_all_brain_info,
                 step_brain_infos[Len(step_brain_infos) + 1 - i],
                 C[i].previous_all_action_info)]

\* A second loop that takes the previous observation from one step too far
\* back.
StepInfosUnchained(C, step_brain_infos) ==
    [i \in 1 .. Len(step_brain_infos) |->
        StepInfo(C[i].previous_step.previous_all_brain_info,
                 step_brain_infos[i],
                 C[i].previous_all_action_info)]

\* The second loop of step(): lines 147-157.
StepInfos(C, step_brain_infos) ==
    [i \in 1 .. Len(step_brain_infos) |->
        StepInfo(C[i].previous_step.current_all_brain_info,
                 step_brain_infos[i],
                 C[i].previous_all_action_info)]

\* A step() that commits the StepInfo of every context whose iteration ran
\* to its end, also when a later one raises.
StepWithCommitsEarlier(acts, fault) ==
    \E r \in {StepLoop(acts, fault)} : \E steps \in {StepInfos(r.ctxs, r.infos)} :
        /\ envs' = r.envs
        /\ calls' = r.calls
        /\ ctxs' = [i \in EnvIds |->
                       IF i <= Len(steps)
                       THEN [r.ctxs[i] EXCEPT !.previous_step = steps[i]]
                       ELSE r.ctxs[i]]
        /\ ret' = [op |-> "step", raised |-> r.raised,
                   value |-> IF r.raised THEN <<>> ELSE steps]

\* LocalEnvManager.step() with the policy answering acts[i] for context i.
StepWith(acts, fault) ==
    \E r \in {StepLoop(acts, fault)} : \E steps \in {StepInfos(r.ctxs, r.infos)} :
        /\ envs' = r.envs
        /\ calls' = r.calls
        /\ IF r.raised
           THEN /\ ctxs' = r.ctxs
                /\ ret' = [op |-> "step", raised |-> TRUE, value |-> <<>>]
           ELSE /\ ctxs' = [i \in EnvIds |-> [r.ctxs[i] EXCEPT !.previous_step = steps[i]]]
                /\ ret' = [op |-> "step", raised |-> FALSE, value |-> steps]

\* One iteration of the first loop of reset(), lines 167-172: the context
\* itself is not touched.
ResetIter(e, c, f) ==
    IF f = "main"
    THEN IterResult(e, c, None, <<Call("reset", FALSE, TRUE)>>, TRUE)
    ELSE IterResult(EnvResetState(e), c, EnvResetObs(e),
                    <<Call("reset", FALSE, FALSE)>>, FALSE)

\* The first loop of reset(): lines 165-172.
ResetLoop(fault) ==
    Loop([i \in EnvIds |-> ResetIter(envs[i], ctxs[i], FaultAt(fault, i))], fault)

\* The second loop of reset(): lines 173-175.
ResetInfos(reset_results) ==
    [i \in 1 .. Len(reset_results) |-> StepInfo(None, reset_results[i], None)]

\* LocalEnvManager.reset().
ResetWith(fault) ==
    \E r \in {ResetLoop(fault)} : \E steps \in {ResetInfos(r.infos)} :
        /\ envs' = r.envs
        /\ calls' = r.calls
        /\ IF r.raised
           THEN /\ ctxs' = ctxs
                /\ ret' = [op |-> "reset", raised |-> TRUE, value |-> <<>>]
           ELSE /\ ctxs' = [i \in EnvIds |-> [ctxs[i] EXCEPT !.previous_step = steps[i]]]
                /\ ret' = [op |-> "reset", raised |-> FALSE, value |-> steps]

\* The loop of close(): lines 187-188.  Closing a Simple1DEnvironment does
\* nothing (line 106).
CloseIter(e, c, f) == IterResult(e, c, None, <<Call("close", FALSE, f = "main")>>, f = "main")

CloseLoop(fault) ==
    Loop([i \in EnvIds |-> CloseIter(envs[i], ctxs[i], FaultAt(fault, i))], fault)

\* LocalEnvManager.close().
CloseWith(fault) ==
    \E r \in {CloseLoop(fault)} :
        /\ calls' = r.calls
        /\ ret' = [op |-> "close", raised |-> r.raised, value |-> <<>>]
        /\ UNCHANGED <<envs, ctxs>>

get_last_steps == [i \in EnvIds |-> ctxs[i].previous_step]

\* The environments a caller may hand to LocalEnvManager(envs): fresh ones,
\* or ones their creator has stepped already.
InitialEnvs ==
    {Simple1DEnvironment, EnvStepState(Simple1DEnvironment, Dict(<<STEP_SIZE>>))}

\* ---------------------------------------------------------- sampler_class

\* The outcome of a call: the value it returns, or the exception it raises
\* and what the exception's message names.
Ok(v) == [error |-> "none", names |-> "", value |-> v]

Raise(kind, names) == [error |-> kind, names |-> names, value |-> <<>>]

\* sampler_cls(**param_dict) binds the required parameters by name; a
\* missing one is Python's TypeError, extra ones fall into **kwargs.
Binds(required, param_dict) == required \subseteq DOMAIN param_dict

Abs(x) == IF x < 0 THEN -x ELSE x

RECURSIVE Sum(_)
Sum(xs) == IF xs = <<>> THEN 0 ELSE xs[1] + Sum(Tail(xs))

\* UniformSampler.__init__
UniformSampler(param_dict) ==
    IF ~Binds({"min_value", "max_value"}, param_dict)
    THEN Raise("TypeError", "UniformSampler")
    ELSE Ok([cls |-> "UniformSampler",
             min_value |-> param_dict["min_value"],
             max_value |-> param_dict["max_value"]])

\* GaussianSampler.__init__
GaussianSampler(param_dict) ==
    IF ~Binds({"mean", "var"}, param_dict)
    THEN Raise("TypeError", "GaussianSampler")
    ELSE Ok([cls |-> "GaussianSampler",
             mean |-> param_dict["mean"],
             var |-> param_dict["var"]])

\* A MultiRangeUniformSampler that gives every interval the same weight.
MultiRangeUniformSamplerEqualWeights(param_dict) ==
    IF ~Binds({"intervals"}, param_dict)
    THEN Raise("TypeError", "MultiRangeUniformSampler")
    ELSE
    LET intervals == param_dict["intervals"]
        interval_lengths ==
            [n \in 1 .. Len(intervals) |-> Abs(intervals[n][2] - intervals[n][1])]
    IN  Ok([cls |-> "MultiRangeUniformSampler",
            intervals |-> intervals,
            interval_lengths |-> interval_lengths,
            cum_interval_length |-> Sum(interval_lengths),
            interval_weights |->
                [n \in 1 .. Len(intervals) |-> <<1, Len(intervals)>>]])

\* MultiRangeUniformSampler.__init__: the lengths, their sum, and one weight
\* x / cum_interval_length per interval, kept as the fraction <<x, cum>>.
\* Python's division raises ZeroDivisionError on a zero divisor.
MultiRangeUniformSampler(param_dict) ==
    IF ~Binds({"intervals"}, param_dict)
    THEN Raise("TypeError", "MultiRangeUniformSampler")
    ELSE
    LET intervals == param_dict["intervals"]
        interval_lengths ==
            [n \in 1 .. Len(intervals) |-> Abs(intervals[n][2] - intervals[n][1])]
        cum_interval_length == Sum(interval_lengths)
    IN  IF Len(interval_lengths) > 0 /\ cum_interval_length = 0
        THEN Raise("ZeroDivisionError", "")
        ELSE Ok([cls |-> "MultiRangeUniformSampler",
                 intervals |-> intervals,
                 interval_lengths |-> interval_lengths,
                 cum_interval_length |-> cum_interval_length,
                 interval_weights |->
                     [n \in 1 .. Len(interval_lengths) |->
                         <<interval_lengths[n], cum_interval_length>>]])

\* SamplerFactory.NAME_TO_CLASS as the class definition leaves it.
BuiltinSamplers ==
    [name \in {"uniform", "gaussian", "multirange_uniform"} |->
        CASE name = "uniform" -> "UniformSampler"
          [] name = "gaussian" -> "GaussianSampler"
          [] name = "multirange_uniform" -> "MultiRangeUniformSampler"]

\* Calling a registered class.
Instantiate(sampler_cls, param_dict) ==
    CASE sampler_cls = "UniformSampler" -> UniformSampler(param_dict)
      [] sampler_cls = "GaussianSampler" -> GaussianSampler(param_dict)
      [] sampler_cls = "MultiRangeUniformSampler" -> MultiRangeUniformSampler(param_dict)

\* SamplerFactory.init_sampler_class
init_sampler_class(name, param_dict) ==
    IF name \notin DOMAIN NAME_TO_CLASS
    THEN Raise("SamplerException", name)
    ELSE Instantiate(NAME_TO_CLASS[name], param_dict)

\* np.random.uniform(low, high): low + (high - low) * u with u in [0, 1),
\* over the integers.
UniformDraws(low, high) ==
    IF low < high THEN low .. (high - 1)
    ELSE IF low = high THEN {low}
    ELSE (high + 1) .. low

\* The outcomes of sample_parameter(): the values it may return, or the
\* ValueError numpy raises (normal with a negative scale, choice over no
\* elements).
sample_parameter(sampler) ==
    CASE sampler.cls = "UniformSampler" ->
            {Ok(v) : v \in UniformDraws(sampler.min_value, sampler.max_value)}
      [] sampler.cls = "GaussianSampler" ->
            IF sampler.var < 0
            THEN {Raise("ValueError", "scale < 0")}
            ELSE {Ok(v) : v \in {sampler.mean - sampler.var, sampler.mean,
                                 sampler.mean + sampler.var}}
      [] sampler.cls = "MultiRangeUniformSampler" ->
            IF Len(sampler.intervals) = 0
            THEN {Raise("ValueError", "a must be non-empty")}
            ELSE UNION {{Ok(v) : v \in UniformDraws(sampler.intervals[n][1],
                                                    sampler.intervals[n][2])} :
                        n \in {m \in 1 .. Len(sampler.intervals) :
                                  sampler.interval_weights[m][1] > 0}}

\* A construction that reads "sampler-type" and leaves it in the mapping.
PopKeepsKey(cur_param_dict, key) == cur_param_dict

\* cur_param_dict.pop("sampler-type"): the mapping without the key.
Pop(cur_param_dict, key) ==
    [k \in DOMAIN cur_param_dict \ {key} |-> cur_param_dict[k]]

InitResult(items, samplers, outcome) ==
    [items |-> items, samplers |-> samplers, error |-> outcome.error,
     names |-> outcome.names]

RECURSIVE InitLoop(_, _, _)
\* A loop that passes over an entry without "sampler-type" instead of
\* raising.
InitLoopSkipsUntyped(k, items, samplers) ==
    IF k > Len(items) THEN InitResult(items, samplers, Ok(<<>>))
    ELSE IF "sampler-type" \notin DOMAIN items[k].params
    THEN InitLoop(k + 1, items, samplers)
    ELSE
    LET popped == Pop(items[k].params, "sampler-type")
        items1 == [items EXCEPT ![k].params = popped]
        param_sampler == init_sampler_class(items[k].params["sampler-type"], popped)
    IN  IF param_sampler.error # "none"
        THEN InitResult(items1, samplers, param_sampler)
        ELSE InitLoop(k + 1, items1,
                      Append(samplers, [name |-> items[k].name,
                                        sampler |-> param_sampler.value]))

\* The loop of SamplerManager.__init__ from the k-th entry of the mapping on:
\* lines 79-87.  items is the caller's mapping, which the loop mutates.
InitLoop(k, items, samplers) ==
    IF k > Len(items) THEN InitResult(items, samplers, Ok(<<>>))
    ELSE
    LET param_name == items[k].name
        cur_param_dict == items[k].params
    IN  IF "sampler-type" \notin DOMAIN cur_param_dict
        THEN InitResult(items, samplers, Raise("SamplerException", param_name))
        ELSE
        LET sampler_name == cur_param_dict["sampler-type"]
            popped == Pop(cur_param_dict, "sampler-type")
            items1 == [items EXCEPT ![k].params = popped]
            param_sampler == init_sampler_class(sampler_name, popped)
        IN  IF param_sampler.error # "none"
            THEN InitResult(items1, samplers, param_sampler)
            ELSE InitLoop(k + 1, items1,
                          Append(samplers, [name |-> param_name,
                                            sampler |-> param_sampler.value]))

\* SamplerManager.__init__
SamplerManagerInit(cfg) ==
    IF cfg.isNone THEN InitResult(<<>>, <<>>, Ok(<<>>))
    ELSE InitLoop(1, cfg.items, <<>>)

\* The outcomes of sample_all() over the samplers from the n-th on, given
\* the result mapping so far: lines 94-95.
RECURSIVE SampleLoop(_, _, _)
SampleLoop(n, samplers, res) ==
    IF n > Len(samplers) THEN {Ok(res)}
    ELSE UNION {IF one.error # "none" THEN {one}
                ELSE SampleLoop(n + 1, samplers,
                                Append(res, [name |-> samplers[n].name,
                                             value |-> one.value])) :
                one \in sample_parameter(samplers[n].sampler)}

\* The configuration entries the model draws from.
Entry(type, params) == ("sampler-type" :> type) @@ params

ConfigEntries ==
    {Entry("uniform", [min_value |-> 1, max_value |-> 3]),
     [min_value |-> 1, max_value |-> 3],
     Entry("uniform", [min_value |-> 1]),
     Entry("gaussian", [mean |-> 0, var |-> 1]),
     Entry("gaussian", [mean |-> 0, var |-> -1]),
     Entry("multirange_uniform", [intervals |-> <<>>]),
     Entry("multirange_uniform", [intervals |-> <<<<2, 2>>>>]),
     Entry("multirange_uniform", [intervals |-> <<<<5, 5>>, <<0, 3>>, <<6, 7>>>>]),
     Entry("nope", <<>>)}

ParamNames == <<"mass", "gravity", "scale", "length">>

\* The configuration mappings: None, or up to MaxParams named entries.
Configs ==
    {None} \cup
    UNION {{Dict([k \in 1 .. n |-> [name |-> ParamNames[k], params |-> f[k]]]) :
               f \in [1 .. n -> ConfigEntries]} : n \in 0 .. MaxParams}

NoManager == [built |-> FALSE, samplers |-> <<>>]

NoCall == [op |-> "none", error |-> "none", names |-> "", value |-> <<>>, args |-> <<>>]

\* SamplerManager(reset_param_dict) over the caller's mapping.
construct ==
    /\ \E r \in {SamplerManagerInit(reset_param_dict)} :
          /\ reset_param_dict' =
                 IF reset_param_dict.isNone THEN reset_param_dict ELSE Dict(r.items)
          /\ manager' = IF r.error = "none"
                        THEN [built |-> TRUE, samplers |-> r.samplers]
                        ELSE manager
          /\ sret' = [op |-> "SamplerManager", error |-> r.error, names |-> r.names,
                      value |-> <<>>, args |-> reset_param_dict]
    /\ UNCHANGED <<NAME_TO_CLASS, envVars>>

\* manager.sample_all()
sample_all ==
    /\ manager.built
    /\ \E r \in IF manager.samplers = <<>> THEN {Ok(<<>>)}
                ELSE SampleLoop(1, manager.samplers, <<>>) :
          sret' = [op |-> "sample_all", error |-> r.error, names |-> r.names,
                   value |-> r.value, args |-> <<>>]
    /\ UNCHANGED <<NAME_TO_CLASS, reset_param_dict, manager, envVars>>

\* The tags and the parameter mappings init_sampler_class is called with.
SamplerTags == {"uniform", "gaussian", "multirange_uniform", "nope"}

ParamDicts == {Pop(c, "sampler-type") : c \in ConfigEntries}

\* SamplerFactory.init_sampler_class(name, param_dict) called directly.
create ==
    /\ \E name \in SamplerTags, param_dict \in ParamDicts :
          \E r \in {init_sampler_class(name, param_dict)} :
              sret' = [op |-> "init_sampler_class", error |-> r.error,
                       names |-> r.names, value |-> r.value,
                       args |-> Entry(name, param_dict)]
    /\ UNCHANGED <<NAME_TO_CLASS, reset_param_dict, manager, envVars>>

\* A register_sampler that keeps the entry a tag already has.
RegisterSamplerKeepsFirst(registry, name, sampler_cls) ==
    [n \in DOMAIN registry \cup {name} |->
        IF n \in DOMAIN registry THEN registry[n] ELSE sampler_cls]

\* NAME_TO_CLASS[name] = sampler_cls: line 59.
RegisterSampler(registry, name, sampler_cls) ==
    [n \in DOMAIN registry \cup {name} |->
        IF n = name THEN sampler_cls ELSE registry[n]]

\* The tags and classes register_sampler is called with: a built-in tag and
\* a new one.
RegisteredTags == {"uniform", "nope"}

RegisteredClasses == {"UniformSampler", "GaussianSampler"}

\* SamplerFactory.register_sampler(name, sampler_cls)
register_sampler ==
    /\ \E name \in RegisteredTags, sampler_cls \in RegisteredClasses :
          /\ NAME_TO_CLASS' = RegisterSampler(NAME_TO_CLASS, name, sampler_cls)
          /\ sret' = [op |-> "register_sampler", error |-> "none", names |-> "",
                      value |-> <<>>, args |-> [name |-> name, cls |-> sampler_cls]]
    /\ UNCHANGED <<reset_param_dict, manager, envVars>>

\* ---------------------------------------------------------- specifications

EnvInit ==
    /\ ret = [op |-> "init", raised |-> FALSE, value |-> <<>>]
    /\ calls = [i \in EnvIds |-> <<>>]
    /\ failed = FALSE

SamplerIdle ==
    /\ NAME_TO_CLASS = BuiltinSamplers
    /\ manager = NoManager
    /\ sret = NoCall

\* LocalEnvManager(envs): one EnvContext per environment, in order.
Init ==
    /\ envs \in [EnvIds -> InitialEnvs]
    /\ ctxs = [i \in EnvIds |-> EnvContext(i)]
    /\ EnvInit
    /\ SamplerIdle
    /\ reset_param_dict = None

\* A configuration mapping loaded, no SamplerManager built yet.
SamplerInit ==
    /\ envs = [i \in EnvIds |-> Simple1DEnvironment]
    /\ ctxs = [i \in EnvIds |-> EnvContext(i)]
    /\ EnvInit
    /\ SamplerIdle
    /\ reset_param_dict \in Configs

\* The caller's side: a manager call that raised ends the run (the exception
\* propagates out of the training loop), and what is left is the teardown.
step ==
    /\ ~failed
    /\ \E acts \in [EnvIds -> PolicyActions] : StepWith(acts, NoFault)
    /\ UNCHANGED <<failed, samplerVars>>

reset ==
    /\ ~failed
    /\ ResetWith(NoFault)
    /\ UNCHANGED <<failed, samplerVars>>

close ==
    /\ CloseWith(NoFault)
    /\ UNCHANGED <<failed, samplerVars>>

\* The same calls over environments of which one call raises (any
\* BaseUnityEnvironment may: a lost connection, a timeout).  A call that
\* raises leaves its environment as it was.
stepRaises ==
    /\ ~failed
    /\ \E acts \in [EnvIds -> PolicyActions], i \in EnvIds, c \in {"lead", "main"} :
          StepWith(acts, Fault(i, c))
    /\ failed' = TRUE
    /\ UNCHANGED samplerVars

resetRaises ==
    /\ ~failed
    /\ \E i \in EnvIds : ResetWith(Fault(i, "main"))
    /\ failed' = TRUE
    /\ UNCHANGED samplerVars

closeRaises ==
    /\ \E i \in EnvIds : CloseWith(Fault(i, "main"))
    /\ failed' = TRUE
    /\ UNCHANGED samplerVars

\* LocalEnvManager over Simple1DEnvironment, whose calls never raise.
Next == step \/ reset \/ close

Spec == Init /\ [][Next]_vars

\* LocalEnvManager over freshly made environments whose calls may raise.
FaultInit == Init /\ envs = [i \in EnvIds |-> Simple1DEnvironment]

FaultNext == step \/ reset \/ close \/ stepRaises \/ resetRaises \/ closeRaises

FaultSpec == FaultInit /\ [][FaultNext]_vars

\* The sampler framework.
SamplerNext == construct \/ sample_all \/ create \/ register_sampler

SamplerSpec == SamplerInit /\ [][SamplerNext]_vars

\* One Simple1DEnvironment driven directly, without a manager: the actions
\* it is stepped with are no argument, an empty mapping, and values inside,
\* on and beyond the clamp in both directions.
EnvActions == {None, EmptyDict} \cup {Dict(<<a>>) : a \in -2 .. 2}

\* env.step(vector_action)
envStep ==
    /\ envs[1].step_count < MaxEnvSteps
    /\ \E vector_action \in EnvActions :
          \E e \in {EnvStepState(envs[1], vector_action)} :
              /\ envs' = [envs EXCEPT ![1] = e]
              /\ ret' = [op |-> "env.step", raised |-> FALSE, value |-> EnvStepObs(e)]
    /\ UNCHANGED <<ctxs, calls, failed, samplerVars>>

\* env.reset()
envReset ==
    /\ envs' = [envs EXCEPT ![1] = EnvResetState(envs[1])]
    /\ ret' = [op |-> "env.reset", raised |-> FALSE, value |-> EnvResetObs(envs[1])]
    /\ UNCHANGED <<ctxs, calls, failed, samplerVars>>

EnvNext == envStep \/ envReset

EnvSpec == FaultInit /\ [][EnvNext]_vars

\* ------------------------------------------------------------------ claims

\* The StepInfos the latest step() returned, if it returned.
StepReturned == ret.op = "step" /\ ~ret.raised

\* C1: every StepInfo step() returns with a non-empty action holds, as its
\* current observation set, the environment's response to that action applied
\* to the environment state the cycle started from (the state that produced
\* the StepInfo's previous observation set).
C1_ActionPairedWithObservation ==
    [][(ret'.op = "step" /\ ~ret'.raised) =>
          \A i \in EnvIds :
              Truthy(ret'.value[i].brain_name_to_action_info) =>
                  ret'.value[i].current_all_brain_info =
                      EnvStepObs(EnvStepState(envs[i],
                          ActionsOf(ret'.value[i].brain_name_to_action_info)))]_vars

\* C2: when global_done is true at the start of a step() cycle, the StepInfo
\* of that context has an empty action field and holds the observation set of
\* a fresh reset().
C2_AutoResetHasEmptyAction ==
    [][(ret'.op = "step" /\ ~ret'.raised) =>
          \A i \in EnvIds :
              global_done(envs[i]) =>
                  /\ ~Truthy(ret'.value[i].brain_name_to_action_info)
                  /\ ret'.value[i].current_all_brain_info = EnvResetObs(envs[i])]_vars

\* C3: a step() or reset() that returns, returns one StepInfo per environment,
\* and the one at index i holds the observation of the i-th environment and is
\* the one the i-th context caches, whichever environments were auto-reset.
C3_OneStepInfoPerEnvInOrder ==
    (ret.op \in {"step", "reset"} /\ ~ret.raised) =>
        /\ Len(ret.value) = NumEnvs
        /\ \A i \in EnvIds :
              /\ ret.value[i].current_all_brain_info = EnvStepObs(envs[i])
              /\ ret.value[i] = ctxs[i].previous_step
              /\ Len(calls[i]) > 0

\* A step() cycle that auto-reset one environment and stepped another, which
\* are now at different positions.
C3_Witness ==
    /\ StepReturned
    /\ \E i, j \in EnvIds :
          /\ calls[i][2].op = "reset"
          /\ calls[j][2].op = "step"
          /\ envs[i].position # envs[j].position

\* C4: after reset() every environment is reset, every context's pending
\* action set is cleared, and every cached StepInfo is (null, reset result,
\* null).
C4_ResetClearsContext ==
    (ret.op = "reset" /\ ~ret.raised) =>
        \A i \in EnvIds :
            /\ envs[i] = EnvResetState(envs[i])
            /\ ~Truthy(ctxs[i].previous_all_action_info)
            /\ ctxs[i].previous_step = StepInfo(None, EnvResetObs(envs[i]), None)

\* C5: close() calls close on every environment, also on those after one
\* whose close raised.
C5_CloseAttemptsEveryEnv ==
    ret.op = "close" => \A i \in EnvIds : Len(calls[i]) = 1

\* The calls of the latest manager call on environment i that raised.
RaisedCalls(i) == {n \in 1 .. Len(calls[i]) : calls[i][n].raised}

\* C6: when an environment call raises during step() or reset(), the manager
\* call raises, the failing call was made once and was the last call made, no
\* environment at a later index was called, and nothing is returned.
C6_FailureAbortsCycle ==
    (ret.op \in {"step", "reset"} /\ ret.raised) =>
        /\ ret.value = <<>>
        /\ \E k \in EnvIds :
              /\ RaisedCalls(k) = {Len(calls[k])}
              /\ \A j \in EnvIds : j < k => RaisedCalls(j) = {} /\ Len(calls[j]) > 0
              /\ \A j \in EnvIds : j > k => calls[j] = <<>>

\* A step() whose main call on the first environment raised, with a later
\* environment left as it was.
C6_Witness ==
    /\ ret.op = "step" /\ ret.raised
    /\ Len(calls[1]) = 2 /\ calls[1][2].raised
    /\ NumEnvs > 1

\* C7: right after construction every cached StepInfo has a null previous
\* observation set and the environment's reset() result as its current one.
C7_ConstructionSeedsWithReset ==
    ret.op = "init" =>
        \A i \in EnvIds :
            /\ ctxs[i].previous_step.previous_all_brain_info = None
            /\ ctxs[i].previous_step.current_all_brain_info = EnvResetObs(envs[i])

\* C8: sampling never raises: every sample_all() on a SamplerManager whose
\* construction succeeded returns a value.
C8_SamplingNeverRaises ==
    sret.op = "sample_all" => sret.error = "none"

\* Intervals, at least one, that all have zero length.
AllZeroLength(intervals) ==
    /\ Len(intervals) > 0
    /\ \A n \in 1 .. Len(intervals) : intervals[n][1] = intervals[n][2]

\* C9: constructing a MultiRangeUniform sampler whose intervals all have zero
\* length fails with the sampler configuration error.
C9_ZeroLengthIsConfigurationError ==
    (/\ sret.op = "init_sampler_class"
     /\ sret.args["sampler-type"] = "multirange_uniform"
     /\ "intervals" \in DOMAIN sret.args
     /\ AllZeroLength(sret.args["intervals"]))
        => sret.error = "SamplerException"

\* The entries of a configuration mapping that lack "sampler-type".
Untyped(cfg) ==
    IF cfg.isNone THEN {}
    ELSE {k \in 1 .. Len(cfg.items) : "sampler-type" \notin DOMAIN cfg.items[k].params}

\* C10 as claimed: constructing a SamplerManager over a mapping with an entry
\* that lacks "sampler-type" fails with the configuration error naming such
\* an entry's parameter, and produces no manager.
C10_UntypedEntryIsNamed ==
    [][(sret'.op = "SamplerManager" /\ Untyped(reset_param_dict) # {}) =>
          /\ sret'.error = "SamplerException"
          /\ \E k \in Untyped(reset_param_dict) :
                sret'.names = reset_param_dict.items[k].name
          /\ manager' = manager]_vars

\* What processing one entry on its own comes to.
EntryOutcome(e) ==
    IF "sampler-type" \notin DOMAIN e.params
    THEN Raise("SamplerException", e.name)
    ELSE init_sampler_class(e.params["sampler-type"], Pop(e.params, "sampler-type"))

\* The entries of a configuration mapping that fail on their own.
Failing(cfg) ==
    {k \in 1 .. Len(cfg.items) : EntryOutcome(cfg.items[k]).error # "none"}

First(S) == CHOOSE k \in S : \A j \in S : k <= j

\* C10 as amended: constructing a SamplerManager over a mapping with an entry
\* that lacks "sampler-type" fails and produces no manager; the error is the
\* one of the first entry, in the mapping's order, that fails, so it is the
\* SamplerException naming the untyped parameter when no earlier entry fails.
C10_FirstFailingEntryIsReported ==
    [][(sret'.op = "SamplerManager" /\ Untyped(reset_param_dict) # {}) =>
          LET k == First(Failing(reset_param_dict))
              e == reset_param_dict.items[k]
          IN  /\ sret'.error = EntryOutcome(e).error
              /\ sret'.names = EntryOutcome(e).names
              /\ sret'.error # "none"
              /\ manager' = manager
              /\ k \in Untyped(reset_param_dict) =>
                    sret'.error = "SamplerException" /\ sret'.names = e.name]_vars

\* A construction that got past a good first entry and failed on the second
\* one, which lacks "sampler-type", naming it.
C10_Witness ==
    /\ sret.op = "SamplerManager"
    /\ Untyped(sret.args) = {2}
    /\ sret.error = "SamplerException"
    /\ sret.names = sret.args.items[2].name
    /\ ~manager.built

\* C11: init_sampler_class with a tag that is not in the registry fails with
\* an error that names the tag, constructs nothing, and is of another kind
\* than the error raised for an entry without "sampler-type".
C11_UnregisteredIsItsOwnErrorKind ==
    (/\ sret.op = "init_sampler_class"
     /\ sret.args["sampler-type"] \notin DOMAIN NAME_TO_CLASS)
        => /\ sret.error # "none"
           /\ sret.names = sret.args["sampler-type"]
           /\ sret.value = <<>>
           /\ sret.error # EntryOutcome([name |-> "mass", params |-> <<>>]).error

\* C12: every sample_all() of a built SamplerManager returns a mapping with
\* exactly the configuration's names, one value per name, a uniform
\* parameter's value inside its range; a manager built from a null
\* configuration returns the empty mapping.
C12_SampleAllCoversEveryName ==
    sret.op = "sample_all" =>
        /\ sret.error = "none"
        /\ Len(sret.value) = Len(manager.samplers)
        /\ \A n \in 1 .. Len(manager.samplers) :
              /\ sret.value[n].name = manager.samplers[n].name
              /\ manager.samplers[n].sampler.cls = "UniformSampler" =>
                    /\ sret.value[n].value >= manager.samplers[n].sampler.min_value
                    /\ sret.value[n].value <= manager.samplers[n].sampler.max_value

\* C13: register_sampler(name, cls) sets the entry of that name, replacing a
\* built-in one too, and leaves every other name as it was; nothing else
\* changes the registry; init_sampler_class constructs with the class the
\* registry holds for the tag, the last one registered.
C13_LastRegistrationWins ==
    [][/\ sret'.op = "register_sampler" =>
             /\ DOMAIN NAME_TO_CLASS' = DOMAIN NAME_TO_CLASS \cup {sret'.args.name}
             /\ NAME_TO_CLASS'[sret'.args.name] = sret'.args.cls
             /\ \A n \in DOMAIN NAME_TO_CLASS \ {sret'.args.name} :
                   NAME_TO_CLASS'[n] = NAME_TO_CLASS[n]
       /\ sret'.op # "register_sampler" => NAME_TO_CLASS' = NAME_TO_CLASS
       /\ (sret'.op = "init_sampler_class" /\ sret'.error = "none") =>
             sret'.value.cls = NAME_TO_CLASS[sret'.args["sampler-type"]]]_vars

\* The built-in tag "uniform" re-registered: it now builds a GaussianSampler,
\* the other built-in tags are as they were.
C13_Witness ==
    /\ sret.op = "init_sampler_class"
    /\ sret.args["sampler-type"] = "uniform"
    /\ sret.error = "none"
    /\ sret.value.cls = "GaussianSampler"
    /\ NAME_TO_CLASS["uniform"] = "GaussianSampler"
    /\ NAME_TO_CLASS["gaussian"] = "GaussianSampler"
    /\ NAME_TO_CLASS["multirange_uniform"] = "MultiRangeUniformSampler"

\* The MultiRangeUniform samplers of total length above zero that exist: the
\* built manager's, and the one init_sampler_class returned last.
PositiveMultiRange ==
    {smp \in {manager.samplers[n].sampler : n \in 1 .. Len(manager.samplers)}
              \cup (IF sret.op = "init_sampler_class" /\ sret.error = "none"
                    THEN {sret.value} ELSE {}) :
        /\ smp.cls = "MultiRangeUniformSampler"
        /\ Sum([n \in 1 .. Len(smp.intervals) |->
                  Abs(smp.intervals[n][2] - smp.intervals[n][1])]) > 0}

\* The numerators of a sequence of weights.
Numerators(weights) == [n \in 1 .. Len(weights) |-> weights[n][1]]

\* A value lies inside an interval the sampler can select, one of weight
\* above zero.
InSelectable(smp, v) ==
    \E m \in 1 .. Len(smp.intervals) :
        /\ smp.interval_weights[m][1] > 0
        /\ v >= Min(smp.intervals[m][1], smp.intervals[m][2])
        /\ v <= Max(smp.intervals[m][1], smp.intervals[m][2])

\* C14: a MultiRangeUniform sampler of positive total length gives each
\* interval the weight |high - low| / (sum of the lengths); the weights sum
\* to 1; an interval of length zero has weight 0 and is never selected; every
\* sampled value lies inside a selected interval.
C14_WeightsAreLengthShares ==
    /\ \A smp \in PositiveMultiRange :
          LET total == Sum([n \in 1 .. Len(smp.intervals) |->
                              Abs(smp.intervals[n][2] - smp.intervals[n][1])])
          IN  /\ Len(smp.interval_weights) = Len(smp.intervals)
              /\ \A m \in 1 .. Len(smp.intervals) :
                    /\ smp.interval_weights[m] =
                          <<Abs(smp.intervals[m][2] - smp.intervals[m][1]), total>>
                    /\ smp.intervals[m][1] = smp.intervals[m][2] =>
                          smp.interval_weights[m][1] = 0
              /\ Sum(Numerators(smp.interval_weights)) = total
    /\ (sret.op = "sample_all" /\ sret.error = "none") =>
          \A n \in 1 .. Len(manager.samplers) :
              manager.samplers[n].sampler \in PositiveMultiRange =>
                  InSelectable(manager.samplers[n].sampler, sret.value[n].value)

\* A sampler with a zero-length interval and two of different positive
\* lengths has been sampled, and the draw came from the shorter one.
C14_Witness ==
    /\ sret.op = "sample_all"
    /\ sret.error = "none"
    /\ \E n \in 1 .. Len(manager.samplers) :
          /\ manager.samplers[n].sampler \in PositiveMultiRange
          /\ \E m \in 1 .. Len(manager.samplers[n].sampler.intervals) :
                manager.samplers[n].sampler.interval_lengths[m] = 0
          /\ sret.value[n].value = 6

\* C15: over any sequence of step() and reset() calls on a
\* Simple1DEnvironment, whatever the actions, the position stays within
\* [-1, 1], one step moves it by at most STEP_SIZE, and the observation
\* returned has done = true and reward = position exactly when the position
\* is 1 or -1, done = false and reward 0 otherwise.
C15_PositionBoundedAndDoneAtTheEnds ==
    [][ret'.op \in {"env.step", "env.reset"} =>
          LET info == ret'.value.items[1]
              atEnd == envs'[1].position \in {POSITION_LIMIT, -POSITION_LIMIT}
          IN  /\ envs'[1].position >= -POSITION_LIMIT
              /\ envs'[1].position <= POSITION_LIMIT
              /\ ret'.op = "env.step" =>
                    /\ envs'[1].position - envs[1].position <= STEP_SIZE
                    /\ envs[1].position - envs'[1].position <= STEP_SIZE
              /\ info.vector_observations = envs'[1].position
              /\ info.local_done = atEnd
              /\ info.rewards = IF atEnd THEN envs'[1].position ELSE 0]_vars

\* The environment has been walked to the upper end and reports it.
C15_Witness ==
    /\ ret.op = "env.step"
    /\ envs[1].position = POSITION_LIMIT
    /\ ret.value.items[1].local_done
    /\ ret.value.items[1].rewards = POSITION_LIMIT

\* C16: env.step() without an action leaves position and step_count as they
\* are, so the lead-in env.step() of LocalEnvManager.step() changes neither
\* the environment nor global_done nor what the following call returns: a
\* cycle leaves each environment, and returns for it, what the one call that
\* follows the lead-in (reset() when global_done, step(actions) otherwise)
\* comes to on the environment as the cycle found it.
C16_LeadInStepChangesNothing ==
    [][(ret'.op = "step" /\ ~ret'.raised) =>
          \A i \in EnvIds :
              LET actions == ActionsOf(ctxs'[i].previous_all_action_info)
                  delta == IF Truthy(actions)
                           THEN clamp(actions.items[1], -STEP_SIZE, STEP_SIZE)
                           ELSE 0
                  counted == IF Truthy(actions) THEN 1 ELSE 0
                  current == ret'.value[i].current_all_brain_info
              IN  /\ calls'[i][1] = Call("step", FALSE, FALSE)
                  /\ IF envs[i].step_count > GlobalDoneSteps
                     THEN /\ calls'[i][2].op = "reset"
                          /\ envs'[i] = [position |-> 0, step_count |-> 0]
                          /\ current = EnvResetObs(envs[i])
                     ELSE /\ calls'[i][2].op = "step"
                          /\ envs'[i].position =
                                clamp(envs[i].position + delta,
                                      -POSITION_LIMIT, POSITION_LIMIT)
                          /\ envs'[i].step_count = envs[i].step_count + counted
                          /\ current = EnvStepObs(envs'[i])]_vars

\* A cycle called step() twice on the first environment, lead-in and action,
\* and the environment has counted one step and moved by one.
C16_Witness ==
    /\ StepReturned
    /\ calls[1] = <<Call("step", FALSE, FALSE), Call("step", TRUE, FALSE)>>
    /\ envs[1].step_count = 1
    /\ envs[1].position = STEP_SIZE

\* C17: for every context, the previous observation of the StepInfo a
\* step() cycle produces is the current observation of the StepInfo cached
\* before the cycle, and after the cycle the cache, and so get_last_steps(),
\* holds exactly the StepInfo the cycle returned.
C17_StepInfoChainUnbroken ==
    [][(ret'.op = "step" /\ ~ret'.raised) =>
          /\ Len(ret'.value) = NumEnvs
          /\ \A i \in EnvIds :
                /\ ret'.value[i].previous_all_brain_info =
                      ctxs[i].previous_step.current_all_brain_info
                /\ ctxs'[i].previous_step = ret'.value[i]
          /\ get_last_steps' = ret'.value]_vars

\* A StepInfo that links two different observations of the first
\* environment, returned and cached.
C17_Witness ==
    /\ StepReturned
    /\ Truthy(ret.value[1].previous_all_brain_info)
    /\ ret.value[1].previous_all_brain_info # ret.value[1].current_all_brain_info
    /\ get_last_steps[1] = ret.value[1]

\* A step() raises in this step of the model.
StepRaisesNow == ~failed /\ ret'.op = "step" /\ ret'.raised

\* The contexts before the raising one: those whose environment calls of the
\* raising cycle were made and all returned.
EarlierContexts ==
    {j \in EnvIds : /\ calls'[j] # <<>>
                    /\ \A n \in 1 .. Len(calls'[j]) : ~calls'[j][n].raised}

\* The latest observation environment i produced: the one its state shows.
LatestObservation(i) == EnvStepObs(envs[i])

Processed(cfg) ==
    IF Failing(cfg) = {} THEN 1 .. Len(cfg.items) ELSE 1 .. First(Failing(cfg))

\* C19: constructing a SamplerManager takes "sampler-type" out of every
\* entry of the caller's mapping it processes, in place and also when a
\* later entry fails, leaving the rest of the mapping as it was; so a
\* construction from a non-empty mapping that a construction has been through
\* fails with the SamplerException naming the first parameter, whose
\* "sampler-type" is missing.
C19_ConstructionConsumesSamplerType ==
    [][(sret'.op = "SamplerManager" /\ Truthy(reset_param_dict)) =>
          LET before == reset_param_dict.items
              after == reset_param_dict'.items
          IN  /\ Len(after) = Len(before)
              /\ \A k \in 1 .. Len(before) :
                    /\ after[k].name = before[k].name
                    /\ DOMAIN after[k].params =
                          IF k \in Processed(reset_param_dict)
                          THEN DOMAIN before[k].params \ {"sampler-type"}
                          ELSE DOMAIN before[k].params
                    /\ \A key \in DOMAIN after[k].params :
                          after[k].params[key] = before[k].params[key]
              /\ "sampler-type" \notin DOMAIN after[1].params
              /\ "sampler-type" \notin DOMAIN before[1].params =>
                    /\ sret'.error = "SamplerException"
                    /\ sret'.names = before[1].name
                    /\ manager' = manager]_vars

\* A second construction from a mapping of two entries, after the first one
\* built a manager of two samplers from it: it failed, and no entry has its
\* "sampler-type" any more.
C19_Witness ==
    /\ sret.op = "SamplerManager"
    /\ sret.error = "SamplerException"
    /\ manager.built
    /\ Len(manager.samplers) = 2
    /\ Len(reset_param_dict.items) = 2
    /\ sret.names = reset_param_dict.items[1].name
    /\ \A k \in 1 .. 2 :
          /\ "sampler-type" \notin DOMAIN reset_param_dict.items[k].params
          /\ manager.samplers[k].name = reset_param_dict.items[k].name

\* C20: under LocalEnvManager's step() and reset(), an environment whose
\* global_done is true when a cycle starts is reset by the cycle, without
\* the action, to position 0 and step_count 0, so that global_done is false
\* when the cycle ends; hence global_done is never true at the end of two
\* cycles in a row, and step_count never exceeds the threshold plus one.
C20_GlobalDoneLastsOneCycle ==
    [][ret'.op \in {"step", "reset"} =>
          \A i \in EnvIds :
              /\ envs[i].step_count <= GlobalDoneSteps + 1
              /\ envs'[i].step_count <= GlobalDoneSteps + 1
              /\ envs[i].step_count > GlobalDoneSteps =>
                    /\ envs'[i] = [position |-> 0, step_count |-> 0]
                    /\ envs'[i].step_count <= GlobalDoneSteps
                    /\ \A n \in 1 .. Len(calls'[i]) : ~calls'[i][n].withAction]_vars

\* A step() cycle has auto-reset the first environment, while the second one
\* has just passed the threshold.
C20_Witness ==
    /\ StepReturned
    /\ calls[1][2] = Call("reset", FALSE, FALSE)
    /\ envs[1] = [position |-> 0, step_count |-> 0]
    /\ envs[2].step_count = GlobalDoneSteps + 1

=============================================================================
